---- MODULE Spec2Model ----
(***************************************************************************)
(* Model of chunk_learner: the SQLite store of learning chunks and their   *)
(* dependency edges (database.py), the operations on it (operations.py)    *)
(* and the `complete` command with its completion gate (cli.py).           *)
(*                                                                         *)
(* Every operation opens its own connection, runs one statement and        *)
(* commits, so each operation is one atomic step.  Storage failures        *)
(* (sqlite3.OperationalError) are outside the model.  The name and the     *)
(* description of a chunk are never read by any decision and are left out. *)
(***************************************************************************)
EXTENDS Integers, FiniteSets, Sequences, Bags

\* ---- bounds of the model ----
MaxChunks == 2
MaxDeps   == 2
MaxClock  == 1

\* ---- program constants ----
MinDifficulty == 1
MaxDifficulty == 5

\* completed_at TIMESTAMP with no default: NULL is the empty sequence,
\* a stored timestamp t is <<t>>
NULL == << >>

\* ids a caller may pass: an id is unknown until a chunk gets it
IdArgs == 1..MaxChunks

\* ids a caller may pass as what a chunk depends on: those, and one id that no
\* chunk ever gets (an edge from such an id is never read by any query)
DependsOnArgs == 1..(MaxChunks + 1)

\* difficulties a caller may pass: both ends of the range and one step outside
DifficultyArgs == {MinDifficulty - 1, MinDifficulty, MaxDifficulty, MaxDifficulty + 1}

VARIABLES
    chunks,        \* table chunks: id -> row
    dependencies,  \* table dependencies: bag of <<chunk_id, depends_on_chunk_id>>
                   \* (the id column of its rows is never read)
    clock,         \* the latest time CURRENT_TIMESTAMP or datetime.now() has read
    ret,           \* the last call and what it returned
    callers        \* where each running `complete` command stands

vars == <<chunks, dependencies, clock, ret, callers>>

\* ---- what a call reports ----
NoCall ==
    [op |-> "none", ok |-> FALSE, id |-> 0,
     out |-> "", list |-> {}, marked |-> FALSE]

Returned(op, ok, id) ==
    [op |-> op, ok |-> ok, id |-> id,
     out |-> "", list |-> {}, marked |-> FALSE]

\* ---- schema ----
\* CHECK(difficulty BETWEEN 1 AND 5)
CheckDifficulty_NoLowerBound(difficulty) ==
    difficulty <= MaxDifficulty

CheckDifficulty(difficulty) ==
    difficulty >= MinDifficulty /\ difficulty <= MaxDifficulty

\* UNIQUE(chunk_id, depends_on_chunk_id)
UniqueDependency_Unchecked(chunk_id, depends_on_chunk_id) ==
    TRUE

UniqueDependency(chunk_id, depends_on_chunk_id) ==
    CopiesIn(<<chunk_id, depends_on_chunk_id>>, dependencies) = 0

\* FOREIGN KEY (chunk_id) / (depends_on_chunk_id) REFERENCES chunks(id):
\* get_connection never issues PRAGMA foreign_keys = ON, so SQLite does not
\* evaluate the two constraints
ForeignKeys_Enforced(chunk_id, depends_on_chunk_id) ==
    chunk_id \in DOMAIN chunks /\ depends_on_chunk_id \in DOMAIN chunks

ForeignKeys(chunk_id, depends_on_chunk_id) ==
    TRUE

\* id INTEGER PRIMARY KEY AUTOINCREMENT: rows are never deleted, so the next
\* id is one more than the number of rows
lastrowid == Cardinality(DOMAIN chunks) + 1

\* what the clock may show at a call: the time of the last reading, when no
\* time has passed or the clock is too coarse to tell, or a later time
Now == {t \in {clock, clock + 1} : t <= MaxClock}

\* a new row: completed DEFAULT 0, created_at DEFAULT CURRENT_TIMESTAMP,
\* completed_at NULL
NewRow(difficulty, now) ==
    [difficulty |-> difficulty, completed |-> FALSE,
     created_at |-> now, completed_at |-> NULL]

\* ---- queries ----
\* SELECT * FROM chunks WHERE id = ?  (found or None)
get_chunk_by_id(chunk_id) == chunk_id \in DOMAIN chunks

\* an edge row (chunk_id, depends_on_chunk_id) is stored
HasEdge(chunk_id, depends_on_chunk_id) ==
    CopiesIn(<<chunk_id, depends_on_chunk_id>>, dependencies) > 0

\* SELECT c.* FROM chunks c JOIN dependencies d ON c.id = d.depends_on_chunk_id
\* WHERE d.chunk_id = ?   -- the ids of the rows returned
get_chunk_dependencies_OthersOnly(chunk_id) ==
    {c \in DOMAIN chunks \ {chunk_id} : HasEdge(chunk_id, c)}

get_chunk_dependencies(chunk_id) ==
    {c \in DOMAIN chunks : HasEdge(chunk_id, c)}

\* incomplete_deps = [d for d in deps if not d.completed]
incomplete_deps_All(chunk_id) ==
    get_chunk_dependencies(chunk_id)

incomplete_deps(chunk_id) ==
    {d \in get_chunk_dependencies(chunk_id) : ~chunks[d].completed}

\* WHERE c.completed = 0 AND NOT EXISTS (SELECT 1 FROM dependencies d
\*   JOIN chunks dep ON d.depends_on_chunk_id = dep.id
\*   WHERE d.chunk_id = c.id AND dep.completed = 0)
Available_NoDependencyFilter ==
    {c \in DOMAIN chunks : ~chunks[c].completed}

Available_NoCompletedTest ==
    {c \in DOMAIN chunks :
        /\ ~chunks[c].completed
        /\ ~\E dep \in DOMAIN chunks : HasEdge(c, dep)}

Available_ReversedJoin ==
    {c \in DOMAIN chunks :
        /\ ~chunks[c].completed
        /\ ~\E dep \in DOMAIN chunks : HasEdge(dep, c) /\ ~chunks[dep].completed}

Available ==
    {c \in DOMAIN chunks :
        /\ ~chunks[c].completed
        /\ ~\E dep \in DOMAIN chunks : HasEdge(c, dep) /\ ~chunks[dep].completed}

\* ORDER BY c.difficulty ASC, c.created_at ASC
OrderedBefore(x, y) ==
    \/ chunks[x].difficulty < chunks[y].difficulty
    \/ /\ chunks[x].difficulty = chunks[y].difficulty
       /\ chunks[x].created_at <= chunks[y].created_at

\* LIMIT 1: the rows that may come first; SQL leaves the order of rows with
\* equal keys open
FirstRows ==
    {c \in Available : \A o \in Available : OrderedBefore(c, o)}

\* ---- updates ----
\* UPDATE chunks SET completed = 1, completed_at = ? WHERE id = ?
CompletedRow_Toggle(row, now) ==
    [row EXCEPT !.completed = ~row.completed, !.completed_at = <<now>>]

CompletedRow_NoTimestamp(row, now) ==
    [row EXCEPT !.completed = TRUE]

CompletedRow(row, now) ==
    [row EXCEPT !.completed = TRUE, !.completed_at = <<now>>]

UpdateCompleted(chunk_id, now) ==
    [c \in DOMAIN chunks |->
        IF c = chunk_id THEN CompletedRow(chunks[c], now) ELSE chunks[c]]

\* cursor.rowcount of that UPDATE
rows_affected_OnlyIncomplete(chunk_id) ==
    IF chunk_id \in DOMAIN chunks /\ ~chunks[chunk_id].completed THEN 1 ELSE 0

rows_affected(chunk_id) == IF chunk_id \in DOMAIN chunks THEN 1 ELSE 0

\* ---- processes running the `complete` command ----
\* one command line each; a process that has not started the command, or
\* runs it in one piece, is idle
Callers == {"A", "B"}

IdleCaller == [pc |-> "idle", chunk_id |-> 0, out |-> ""]

Init ==
    /\ chunks = << >>
    /\ dependencies = EmptyBag
    /\ clock = 0
    /\ ret = NoCall
    /\ callers = [p \in Callers |-> IdleCaller]

\* operations.create_chunk: the INSERT raises IntegrityError when the CHECK
\* fails and nothing is committed
create_chunk(difficulty) ==
    /\ IF CheckDifficulty(difficulty)
       THEN /\ Cardinality(DOMAIN chunks) < MaxChunks
            /\ \E now \in Now :
                  /\ chunks' = [c \in DOMAIN chunks \cup {lastrowid} |->
                        IF c = lastrowid THEN NewRow(difficulty, now) ELSE chunks[c]]
                  /\ clock' = now
            /\ ret' = Returned("create_chunk", TRUE, lastrowid)
       ELSE /\ UNCHANGED <<chunks, clock>>
            /\ ret' = Returned("create_chunk", FALSE, 0)
    /\ UNCHANGED dependencies

\* operations.add_dependency: IntegrityError of the UNIQUE constraint is
\* caught and reported as False; foreign keys are declared but the connection
\* never enables them, so any pair of ids is accepted
add_dependency(chunk_id, depends_on_chunk_id) ==
    /\ IF /\ UniqueDependency(chunk_id, depends_on_chunk_id)
          /\ ForeignKeys(chunk_id, depends_on_chunk_id)
       THEN /\ BagCardinality(dependencies) < MaxDeps
            /\ dependencies' =
                 dependencies (+) SetToBag({<<chunk_id, depends_on_chunk_id>>})
            /\ ret' = Returned("add_dependency", TRUE, 0)
       ELSE /\ dependencies' = dependencies
            /\ ret' = Returned("add_dependency", FALSE, 0)
    /\ UNCHANGED <<chunks, clock>>

\* operations.complete_chunk
complete_chunk(chunk_id) ==
    /\ \E now \in Now :
          /\ chunks' = UpdateCompleted(chunk_id, now)
          /\ clock' = now
    /\ ret' = Returned("complete_chunk", rows_affected(chunk_id) > 0, 0)
    /\ UNCHANGED dependencies

\* operations.get_next_available_chunk: a row or None
get_next_available_chunk ==
    /\ IF FirstRows = {}
       THEN ret' = Returned("get_next_available_chunk", FALSE, 0)
       ELSE \E row \in FirstRows :
                ret' = Returned("get_next_available_chunk", TRUE, row)
    /\ UNCHANGED <<chunks, dependencies, clock>>

\* cli.complete: what the command does for a chunk id
CompleteOutcome_NoCompletedCheck(chunk_id) ==
    IF ~get_chunk_by_id(chunk_id) THEN "not_found"
    ELSE IF incomplete_deps(chunk_id) # {} THEN "blocked"
    ELSE IF rows_affected(chunk_id) > 0 THEN "completed"
    ELSE "failed"

CompleteOutcome(chunk_id) ==
    IF ~get_chunk_by_id(chunk_id) THEN "not_found"
    ELSE IF chunks[chunk_id].completed THEN "already_completed"
    ELSE IF incomplete_deps(chunk_id) # {} THEN "blocked"
    ELSE IF rows_affected(chunk_id) > 0 THEN "completed"
    ELSE "failed"

\* the checks of the command before it calls complete_chunk all pass
GatePasses(chunk_id) == CompleteOutcome(chunk_id) \in {"completed", "failed"}

complete(chunk_id) ==
    LET out == CompleteOutcome(chunk_id) IN
    /\ IF out \in {"completed", "failed"}
       THEN \E now \in Now :
                /\ chunks' = UpdateCompleted(chunk_id, now)
                /\ clock' = now
       ELSE UNCHANGED <<chunks, clock>>
    /\ ret' = [op |-> "complete",
               ok |-> (out = "completed"), id |-> 0, out |-> out,
               list |-> IF out = "blocked" THEN incomplete_deps(chunk_id) ELSE {},
               marked |-> (out \in {"completed", "failed"})]
    /\ UNCHANGED dependencies

\* one process at a time: every call and every command runs to its end
\* before the next starts
Next ==
    \/ /\ \E difficulty \in DifficultyArgs : create_chunk(difficulty)
       /\ UNCHANGED callers
    \/ /\ \E chunk_id \in IdArgs, depends_on_chunk_id \in DependsOnArgs :
              add_dependency(chunk_id, depends_on_chunk_id)
       /\ UNCHANGED callers
    \/ /\ \E chunk_id \in IdArgs : complete_chunk(chunk_id)
       /\ UNCHANGED callers
    \/ /\ \E chunk_id \in IdArgs : complete(chunk_id)
       /\ UNCHANGED callers
    \/ /\ get_next_available_chunk
       /\ UNCHANGED callers

Spec == Init /\ [][Next]_vars

\* ---- the vocabulary of the properties ----
\* the direct dependencies of a chunk: every D with an edge (chunk_id, D)
DirectDependencies(chunk_id) ==
    {d \in DependsOnArgs : HasEdge(chunk_id, d)}

\* a chunk with this id exists and its completed flag is true
IsCompleted(id) == id \in DOMAIN chunks /\ chunks[id].completed

\* a chunk with this id exists and its completed flag is false
IsIncomplete(id) == id \in DOMAIN chunks /\ ~chunks[id].completed

IncompleteDirectDependencies(chunk_id) ==
    {d \in DirectDependencies(chunk_id) : IsIncomplete(d)}

\* the candidate set: incomplete chunks whose direct dependencies are all
\* completed
CandidateSet ==
    {c \in DOMAIN chunks :
        IsIncomplete(c) /\ \A d \in DirectDependencies(c) : IsCompleted(d)}

NextReturned == ret.op = "get_next_available_chunk"

\* C1 (gate soundness): in every state and for every chunk C, if the gate of
\* the `complete` command passes for C then every D with an edge (C, D) has
\* completed = true.
C1_GateSoundness ==
    \A c \in DOMAIN chunks :
        GatePasses(c) => \A d \in DirectDependencies(c) : IsCompleted(d)

\* C2 (selection safety): next_available() never returns a completed chunk
\* and never returns a chunk with a direct dependency whose completed flag is
\* false.
C2_SelectionSafety ==
    (NextReturned /\ ret.ok) =>
        /\ ret.id \in DOMAIN chunks
        /\ ~chunks[ret.id].completed
        /\ ~\E d \in DirectDependencies(ret.id) : IsIncomplete(d)

\* a chunk was returned although an easier incomplete chunk exists, which has
\* an incomplete direct dependency
C2_Witness ==
    /\ NextReturned /\ ret.ok
    /\ \E c \in DOMAIN chunks :
          /\ IsIncomplete(c)
          /\ chunks[c].difficulty < chunks[ret.id].difficulty
          /\ IncompleteDirectDependencies(c) # {}

\* C3 (selection minimality): whenever the candidate set is non-empty,
\* next_available() returns a candidate whose (difficulty, created_at) is at
\* most that of every other candidate.
C3_SelectionMinimality ==
    (NextReturned /\ CandidateSet # {}) =>
        /\ ret.ok
        /\ ret.id \in CandidateSet
        /\ \A o \in CandidateSet : OrderedBefore(ret.id, o)

\* C4: next_available() returns absent if and only if the candidate set is
\* empty.
C4_AbsentIffNoCandidate ==
    NextReturned => (~ret.ok <=> CandidateSet = {})

\* C5 (monotonicity): once a chunk's completed flag is true it is true in
\* every later state.
C5_CompletionMonotonic ==
    [][\A c \in DOMAIN chunks :
          chunks[c].completed => (c \in DOMAIN chunks' /\ chunks'[c].completed)]_vars

\* a chunk was marked completed again, later than another completed chunk
C5_Witness ==
    /\ ret.op = "complete_chunk" /\ ret.ok
    /\ \E c \in DOMAIN chunks : chunks[c].completed /\ chunks[c].completed_at # <<clock>>
    /\ \E c \in DOMAIN chunks : chunks[c].completed /\ chunks[c].completed_at = <<clock>>

\* C6: for every chunk, completed_at is non-null if and only if completed is
\* true.
C6_CompletedAtIffCompleted ==
    \A c \in DOMAIN chunks : (chunks[c].completed_at # NULL) <=> chunks[c].completed

\* one chunk is completed and carries a timestamp, another is new and has none
C6_Witness ==
    \E c, d \in DOMAIN chunks :
        /\ chunks[c].completed /\ chunks[c].completed_at # NULL
        /\ ~chunks[d].completed /\ chunks[d].completed_at = NULL

\* C7 as stated: the completed_at of a completed chunk never changes, whatever
\* operation runs, a repeated mark_completed included.
C7_CompletedAtSetOnce ==
    [][\A c \in DOMAIN chunks :
          chunks[c].completed => chunks'[c].completed_at = chunks[c].completed_at]_vars

\* C7 as amended: the completed_at of a completed chunk changes only in a step
\* that is a direct complete_chunk call on that chunk; no other operation and
\* not the `complete` command changes it.
C7_CompletedAtChangedOnlyByRepeatedMark ==
    [][\A c \in DOMAIN chunks :
          (chunks[c].completed /\ chunks'[c].completed_at # chunks[c].completed_at)
              => complete_chunk(c)]_vars

\* the `complete` command ran on the one completed chunk, at a time later
\* than its completion, and reported it as already completed
C7_Witness ==
    /\ ret.op = "complete" /\ ret.out = "already_completed"
    /\ \E c \in DOMAIN chunks :
          /\ chunks[c].completed /\ chunks[c].completed_at # <<clock>>
          /\ \A o \in DOMAIN chunks \ {c} : ~chunks[o].completed

\* C8: every stored chunk has difficulty in 1..5, and create_chunk with a
\* difficulty outside 1..5 fails and leaves chunks and edges as they were.
C8_DifficultyInRange ==
    /\ [](\A c \in DOMAIN chunks :
             chunks[c].difficulty \in MinDifficulty..MaxDifficulty)
    /\ [][\A d \in DifficultyArgs :
             (create_chunk(d) /\ d \notin MinDifficulty..MaxDifficulty)
                 => (~ret'.ok /\ chunks' = chunks /\ dependencies' = dependencies)]_vars

\* a creation failed on a store that holds chunks and edges
C8_Witness ==
    /\ ret.op = "create_chunk" /\ ~ret.ok
    /\ DOMAIN chunks # {}
    /\ dependencies # EmptyBag

\* C9 (duplicate edge rejection): add_dependency on a pair already present
\* returns false and leaves the dependency set unchanged, so there is at most
\* one edge per ordered pair.
C9_DuplicateEdgeRejected ==
    /\ [](\A p \in BagToSet(dependencies) : CopiesIn(p, dependencies) = 1)
    /\ [][\A a \in IdArgs, b \in DependsOnArgs :
             (HasEdge(a, b) /\ add_dependency(a, b))
                 => (~ret'.ok /\ dependencies' = dependencies)]_vars

\* an add_dependency call returned false on a store that holds edges
C9_Witness ==
    /\ ret.op = "add_dependency" /\ ~ret.ok
    /\ BagCardinality(dependencies) >= 1

\* C10 (blocked completion): the `complete` command on an existing incomplete
\* chunk with an incomplete direct dependency ends Blocked, reports exactly
\* the incomplete direct dependencies, does not call complete_chunk and leaves
\* the store unchanged.
C10_BlockedCompletion ==
    [][\A c \in DOMAIN chunks :
          (complete(c) /\ IsIncomplete(c) /\ IncompleteDirectDependencies(c) # {})
              => /\ ret'.out = "blocked"
                 /\ ret'.list = IncompleteDirectDependencies(c)
                 /\ ~ret'.marked
                 /\ chunks' = chunks
                 /\ dependencies' = dependencies]_vars

\* the command ended Blocked for a chunk that also has a completed dependency,
\* which the report leaves out
C10_Witness ==
    /\ ret.op = "complete" /\ ret.out = "blocked" /\ ret.list # {}
    /\ \E c \in DOMAIN chunks :
          /\ IsIncomplete(c)
          /\ ret.list = IncompleteDirectDependencies(c)
          /\ \E d \in DirectDependencies(c) : IsCompleted(d) /\ d \notin ret.list

\* ---- completion only through the `complete` command ----
\* the operations of a front end that honours the gate: it never calls
\* complete_chunk but through the command
NextGated ==
    \/ /\ \E difficulty \in DifficultyArgs : create_chunk(difficulty)
       /\ UNCHANGED callers
    \/ /\ \E chunk_id \in IdArgs, depends_on_chunk_id \in DependsOnArgs :
              add_dependency(chunk_id, depends_on_chunk_id)
       /\ UNCHANGED callers
    \/ /\ \E chunk_id \in IdArgs : complete(chunk_id)
       /\ UNCHANGED callers
    \/ /\ get_next_available_chunk
       /\ UNCHANGED callers

SpecGated == Init /\ [][NextGated]_vars

C12_UnblockingTransition ==
    /\ [](\A c \in DOMAIN chunks :
            (NextReturned /\ ret.ok /\ IsIncomplete(c)
                /\ IncompleteDirectDependencies(c) # {}) => ret.id # c)
    /\ [][\A c \in DOMAIN chunks, d \in IdArgs :
            (/\ IsIncomplete(c)
             /\ {x \in DirectDependencies(c) : ~IsCompleted(x)} = {d}
             /\ IsIncomplete(d)
             /\ complete_chunk(d))
                => c \in CandidateSet']_vars
    /\ [][(ret.op = "complete_chunk" /\ ret.ok /\ get_next_available_chunk)
            => \A c \in CandidateSet :
                   (\A o \in CandidateSet \ {c} : OrderedBefore(c, o))
                       => (ret'.ok /\ ret'.id = c)]_vars

\* C13 (completion only through the gate): in every step that changes a
\* chunk's completed flag from false to true, all direct dependencies of the
\* chunk were completed in the state before the step.
C13_CompletionOnlyThroughGate ==
    [][\A c \in DOMAIN chunks :
           (~chunks[c].completed /\ chunks'[c].completed)
               => \A d \in DirectDependencies(c) : IsCompleted(d)]_vars

\* ---- cycles ----
\* the edges whose two ends are existing, incomplete chunks
IncompleteEdges ==
    {e \in (DOMAIN chunks) \X (DOMAIN chunks) :
        HasEdge(e[1], e[2]) /\ IsIncomplete(e[1]) /\ IsIncomplete(e[2])}

\* the ids reached from the set S over at most n edges of E, S included
RECURSIVE ReachedOver(_, _, _)
ReachedOver(E, S, n) ==
    IF n = 0 THEN S
    ELSE ReachedOver(E, S \cup {e[2] : e \in {x \in E : x[1] \in S}}, n - 1)

ReachedFrom(S, n) == ReachedOver(IncompleteEdges, S, n)

\* c lies on a cycle of incomplete chunks (a self-loop is a cycle of length one)
OnIncompleteCycle(c) ==
    /\ c \in DOMAIN chunks
    /\ \E e \in IncompleteEdges :
           e[1] = c /\ c \in ReachedFrom({e[2]}, Cardinality(DOMAIN chunks))

\* C14 (cycle robustness): under create_chunk, add_dependency and gated
\* completions, a chunk that lies on a cycle of incomplete chunks stays on it
\* in every later state, is never in the available set or the candidate set,
\* and is never returned by next_available().
C14_CycleRobustness ==
    /\ [](\A c \in DOMAIN chunks :
            OnIncompleteCycle(c) =>
                /\ c \notin Available
                /\ c \notin CandidateSet
                /\ ~GatePasses(c)
                /\ ((NextReturned /\ ret.ok) => ret.id # c))
    /\ [][\A c \in DOMAIN chunks : OnIncompleteCycle(c) => OnIncompleteCycle(c)']_vars

\* two chunks depend on each other, a later call has left them as they were,
\* and next_available() has just returned nothing
C14_Witness ==
    /\ NextReturned /\ ~ret.ok
    /\ DOMAIN chunks = {1, 2}
    /\ HasEdge(1, 2) /\ HasEdge(2, 1)
    /\ OnIncompleteCycle(1) /\ OnIncompleteCycle(2)

C16_PrerequisiteClosure ==
    \A c \in DOMAIN chunks :
        chunks[c].completed => \A d \in DirectDependencies(c) : IsCompleted(d)

\* C17 (a dangling reference blocks): an incomplete chunk with an edge to an
\* id of no chunk is not returned by next_available(), and the completion
\* gate does not pass for it, as long as that id has no chunk.
C17_DanglingReferenceBlocks ==
    \A c \in DOMAIN chunks, d \in DependsOnArgs :
        (IsIncomplete(c) /\ HasEdge(c, d) /\ d \notin DOMAIN chunks)
            => /\ ~GatePasses(c)
               /\ (NextReturned /\ ret.ok) => ret.id # c

\* C20 (gate and selection agree): an existing incomplete chunk passes the
\* filter of next_available() exactly when the completion gate passes for it,
\* and a chunk returned by next_available() passes the gate.
C20_GateAndSelectionAgree ==
    /\ \A c \in DOMAIN chunks :
           IsIncomplete(c) => (c \in Available <=> GatePasses(c))
    /\ (NextReturned /\ ret.ok) => GatePasses(ret.id)

\* next_available() has just returned a chunk for which the gate passes,
\* while the other chunk, which depends on it, is held back by both the
\* filter and the gate
C20_Witness ==
    /\ NextReturned /\ ret.ok
    /\ ret.id \in Available /\ GatePasses(ret.id)
    /\ \E c \in DOMAIN chunks :
           /\ HasEdge(c, ret.id)
           /\ IsIncomplete(c) /\ c \notin Available /\ ~GatePasses(c)

\* ---- working through a fixed, acyclic store ----
\* no id of the edge set E lies on a cycle of E
Acyclic(E) ==
    \A e \in E : e[1] \notin ReachedOver(E, {e[2]}, Cardinality(E))

\* the rows a chunks table can hold: created_at does not decrease with the
\* id, completed_at is set exactly on completed rows and is not before
\* created_at
ChunkRows ==
    {r \in [difficulty : {MinDifficulty, MaxDifficulty}, completed : BOOLEAN,
            created_at : 0..MaxClock,
            completed_at : {NULL} \cup {<<t>> : t \in 0..MaxClock}] :
        IF r.completed
        THEN r.completed_at # NULL /\ r.completed_at[1] >= r.created_at
        ELSE r.completed_at = NULL}

\* a store whose edges join existing chunks and form no cycle: the calls that
\* built it are over, and no chunk or edge is added from here on
InitProgress ==
    /\ \E n \in 0..MaxChunks :
           chunks \in {f \in [1..n -> ChunkRows] :
                          \A i, j \in 1..n : i <= j => f[i].created_at <= f[j].created_at}
    /\ dependencies \in
           {SetToBag(E) : E \in {D \in SUBSET ((DOMAIN chunks) \X (DOMAIN chunks)) :
                                    Cardinality(D) <= MaxDeps /\ Acyclic(D)}}
    /\ clock \in {t \in 0..MaxClock :
                     \A c \in DOMAIN chunks :
                         /\ chunks[c].created_at <= t
                         /\ chunks[c].completed => chunks[c].completed_at[1] <= t}
    /\ ret = NoCall
    /\ callers = [p \in Callers |-> IdleCaller]

\* the user asks for the next chunk
AskNext ==
    /\ get_next_available_chunk
    /\ UNCHANGED callers

\* the user marks the chunk that next_available() has just returned
CompleteReturned ==
    /\ NextReturned /\ ret.ok
    /\ complete_chunk(ret.id)
    /\ UNCHANGED callers

NextProgress ==
    \/ AskNext
    \/ CompleteReturned

\* the user keeps asking for the next chunk and keeps completing what is
\* returned
SpecProgress ==
    /\ InitProgress
    /\ [][NextProgress]_vars
    /\ WF_vars(AskNext)
    /\ WF_vars(CompleteReturned)

\* C19 (progress on acyclic graphs): on a fixed store whose edges join
\* existing chunks and form no cycle, next_available() returns a chunk
\* whenever an incomplete chunk exists, and completing the returned chunk
\* again and again leads to a state where every chunk is completed and
\* next_available() returns nothing.
C19_Progress ==
    /\ []((NextReturned /\ \E c \in DOMAIN chunks : IsIncomplete(c)) => ret.ok)
    /\ <>(/\ \A c \in DOMAIN chunks : IsCompleted(c)
          /\ NextReturned /\ ~ret.ok)

\* the returned chunk 1 has just been marked completed, which makes chunk 2,
\* which depends on it, available
C19_Witness ==
    /\ ret.op = "complete_chunk" /\ ret.ok
    /\ IsCompleted(1) /\ IsIncomplete(2) /\ HasEdge(2, 1)
    /\ 2 \in Available

\* ---- two processes running the `complete` command ----
\* cli.complete up to its first call: chunk = get_chunk_by_id(chunk_id), then
\* the tests `not chunk` and `chunk.completed`
complete_get_chunk(p, chunk_id) ==
    /\ callers[p].pc = "idle"
    /\ callers' = [callers EXCEPT ![p] =
           IF ~get_chunk_by_id(chunk_id)
           THEN [pc |-> "done", chunk_id |-> chunk_id, out |-> "not_found"]
           ELSE IF chunks[chunk_id].completed
           THEN [pc |-> "done", chunk_id |-> chunk_id, out |-> "already_completed"]
           ELSE [pc |-> "got_chunk", chunk_id |-> chunk_id, out |-> ""]]
    /\ UNCHANGED <<chunks, dependencies, clock, ret>>

\* its second call: deps = get_chunk_dependencies(chunk_id), then the test of
\* incomplete_deps; the gate has passed when the list is empty
complete_get_deps(p) ==
    /\ callers[p].pc = "got_chunk"
    /\ callers' = [callers EXCEPT ![p] =
           IF incomplete_deps(callers[p].chunk_id) # {}
           THEN [@ EXCEPT !.pc = "done", !.out = "blocked"]
           ELSE [@ EXCEPT !.pc = "passed"]]
    /\ UNCHANGED <<chunks, dependencies, clock, ret>>

\* its third call: if operations.complete_chunk(chunk_id): "Completed chunk"
\* else "Failed to complete chunk"
complete_mark(p) ==
    /\ callers[p].pc = "passed"
    /\ complete_chunk(callers[p].chunk_id)
    /\ callers' = [callers EXCEPT ![p] =
           [@ EXCEPT !.pc = "done",
                     !.out = IF rows_affected(callers[p].chunk_id) > 0
                             THEN "completed" ELSE "failed"]]

NextRace ==
    \/ /\ \E difficulty \in DifficultyArgs : create_chunk(difficulty)
       /\ UNCHANGED callers
    \/ /\ \E chunk_id \in IdArgs, depends_on_chunk_id \in DependsOnArgs :
              add_dependency(chunk_id, depends_on_chunk_id)
       /\ UNCHANGED callers
    \/ \E p \in Callers, chunk_id \in IdArgs : complete_get_chunk(p, chunk_id)
    \/ \E p \in Callers : complete_get_deps(p)
    \/ \E p \in Callers : complete_mark(p)

SpecRace == Init /\ [][NextRace]_vars

\* C18 (gate race): with two callers whose gate check and mark_completed are
\* separate steps, both can be past the gate for the same chunk before either
\* has marked it, and a caller past the gate always goes on:
\* its mark_completed is never held back, succeeds, and writes completed_at,
\* whether or not the other caller has marked the chunk in between.
C18_GateRace ==
    /\ [](\A p \in Callers : callers[p].pc = "passed" => ENABLED complete_mark(p))
    /\ [][\A p \in Callers :
            complete_mark(p) =>
                /\ ret'.op = "complete_chunk" /\ ret'.ok
                /\ callers'[p].out = "completed"
                /\ chunks'[callers[p].chunk_id].completed
                /\ chunks'[callers[p].chunk_id].completed_at = <<clock'>>]_vars

\* both callers are past the gate for the same chunk, which neither has
\* marked yet
C18_Witness ==
    /\ \A p \in Callers : callers[p].pc = "passed"
    /\ callers["A"].chunk_id = callers["B"].chunk_id
    /\ IsIncomplete(callers["A"].chunk_id)

====
